---- MODULE Spec2Model ----
(***************************************************************************)
(* Phone-to-map pipeline of the two scripts of the repository:             *)
(*   phoneinfo.py  the command-line variant  (variant = "phoneinfo")       *)
(*   main.py       the interactive variant   (variant = "main")            *)
(* A process is one execution of a script.  The external libraries         *)
(* (phonenumbers, opencage, folium) and the user are the environment:      *)
(* their answers are drawn from small sets.                                *)
(*                                                                         *)
(* Python values: a value that may be None is a sequence of length at most *)
(* one (<<>> is None, <<v>> is v).  Strings whose characters matter (the   *)
(* phone number, file names, timestamps) are sequences of one-character    *)
(* strings; other strings are TLA+ strings.  A dict is a function from its *)
(* keys.  Coordinates are integers, in units of 1e-4 degree.               *)
(***************************************************************************)
EXTENDS Integers, Sequences, FiniteSets, TLC

\* Bounds of the model.
MaxLen == 2
MaxResults == 2
MaxRuns == 2

VARIABLES
    variant,        \* which script this process executes
    args_number,    \* phoneinfo.py: args.number (None when not given)
    args_api_key,   \* phoneinfo.py: args.api_key
    env_api_key,    \* os.getenv("OPENCAGE_API_KEY") of the process
    pc,             \* position of the process
    runs,           \* main.py: pipeline runs started so far
    choice,         \* main.py: last menu choice read
    typed,          \* the number as the user supplied it to this run
    phone_number,   \* the string handed to the pipeline (and to the parser)
    api_key,        \* the credential handed to the pipeline
    parsed,         \* what phonenumbers.parse / is_valid_number answered
    raw_location,   \* what geocoder.description_for_number answered
    raw_carrier,    \* what carrier.name_for_number answered
    location,       \* local `location`
    carrier_name,   \* local `carrier_name`
    phone_type,     \* phoneinfo.py: local `phone_type`
    geo,            \* what geocode() answered
    query,          \* the query of the geocoding request
    geocodeCalls,   \* geocoding requests issued by this run
    lat, lng,       \* locals `lat`, `lng`
    result,         \* the aggregate returned by the pipeline function
    written,        \* files written by this run
    exitCode,       \* exit code of the process (None while it runs)
    interrupted,    \* a KeyboardInterrupt was raised in the process
    stdin_eof       \* main.py: input() met the end of the standard input

envVars == <<variant, args_number, args_api_key, env_api_key>>
runVars == <<typed, phone_number, api_key, parsed, raw_location, raw_carrier, location,
             carrier_name, phone_type, geo, query, geocodeCalls, lat, lng, result, written>>
vars == <<envVars, runVars, pc, runs, choice, exitCode, interrupted, stdin_eof>>

----------------------------------------------------------------------------
\* Python values

None == <<>>
Some(v) == <<v>>

\* truth value of an optional TLA+ string: None and "" are false
Truthy(o) == o # None /\ o[1] # ""

\* truth value of an optional character string: None and the empty string are false
TruthyChars(o) == o # None /\ Len(o[1]) > 0

\* Python's `a or b`
Or(a, b) == IF Truthy(a) THEN a ELSE b

Chars == {"+", "1", " "}
Whitespace == {" "}
Strings == UNION {[1..n -> Chars] : n \in 0..MaxLen}

\* s.startswith(c)
startswith(s, c) == Len(s) > 0 /\ s[1] = c

RECURSIVE lstrip(_)
lstrip(s) == IF Len(s) > 0 /\ Head(s) \in Whitespace THEN lstrip(Tail(s)) ELSE s

RECURSIVE rstrip(_)
rstrip(s) ==
    IF Len(s) > 0 /\ s[Len(s)] \in Whitespace THEN rstrip(SubSeq(s, 1, Len(s) - 1)) ELSE s

\* s.strip()
strip(s) == rstrip(lstrip(s))

\* mutant: the prefix is added unconditionally
AddPrefixAlways(s) == <<"+">> \o s

\* `if not number.startswith("+"): number = "+" + number`
AddPrefix(s) == IF startswith(s, "+") THEN s ELSE <<"+">> \o s

\* phoneinfo.py: args.number as it is handed to get_phone_info
phoneinfo_normalize(s) == AddPrefix(s)

\* main.py: the line read from the user as it is handed to get_phone_location
main_normalize(s) == AddPrefix(strip(s))

Keys(d) == IF d = None THEN {} ELSE DOMAIN d[1]

----------------------------------------------------------------------------
\* Exceptions and handlers

\* the direct base class of each exception class that can be raised here
ExcBase ==
    [NumberParseException |-> "Exception",
     GeocodeError         |-> "Exception",
     Exception            |-> "BaseException",
     KeyboardInterrupt    |-> "BaseException",
     KeyError             |-> "Exception",
     EOFError             |-> "Exception",
     SystemExit           |-> "BaseException"]

RECURSIVE IsSubclass(_, _)
IsSubclass(exc, cls) ==
    IF exc = cls THEN TRUE
    ELSE IF exc = "BaseException" THEN FALSE
    ELSE IsSubclass(ExcBase[exc], cls)

\* mutant: the clause catches whatever is raised (a bare `except:`)
CatchesAnything(cls, exc) == TRUE

\* whether an `except cls` clause catches a raised exc
Catches(cls, exc) == IsSubclass(exc, cls)

\* the except clauses around the module-level call of main()
TopLevel(v) ==
    IF v = "phoneinfo"
    THEN << [cls |-> "KeyboardInterrupt", do |-> "exit0"],
            [cls |-> "Exception",         do |-> "exit1"] >>
    ELSE << [cls |-> "KeyboardInterrupt", do |-> "exit0"] >>

\* the except clauses in scope at a position, innermost first
Handlers(v, at) ==
    IF v = "phoneinfo"
    THEN (CASE at = "parse"   -> << [cls |-> "NumberParseException", do |-> "parse_exit"] >>
            [] at = "geocode" -> << [cls |-> "Exception", do |-> "geocode_failed"] >>
            [] OTHER          -> << >>) \o TopLevel(v)
    ELSE (IF at \in {"parse", "lookup", "geocode", "render"}
          THEN << [cls |-> "NumberParseException", do |-> "return_parse_error"],
                  [cls |-> "Exception",            do |-> "return_error"] >>
          ELSE << >>) \o TopLevel(v)

\* what happens to an exception raised under a chain of except clauses
RECURSIVE Dispatch(_, _)
Dispatch(chain, exc) ==
    IF chain = << >> THEN "uncaught"
    ELSE IF Catches(Head(chain).cls, exc) THEN Head(chain).do
    ELSE Dispatch(Tail(chain), exc)

\* mutant: sys.exit() is called without its code
SysExitNoCode(v, code) == 0

\* the exit code of the process after sys.exit(code): every sys.exit of the two
\* scripts runs with only the module-level except clauses in scope
SysExit(v, code) ==
    LET do == Dispatch(TopLevel(v), "SystemExit")
    IN  CASE do = "uncaught" -> code
          [] do = "exit0"    -> 0
          [] OTHER           -> 1

----------------------------------------------------------------------------
\* Clock and strftime

\* readings of datetime.now(), in the order of time
ClockSamples ==
    << [year |-> 2025, month |-> 1, day |-> 31, hour |-> 23, minute |-> 59, second |-> 59],
       [year |-> 2026, month |-> 11, day |-> 5, hour |-> 3, minute |-> 4, second |-> 9] >>

DigitChars == <<"0", "1", "2", "3", "4", "5", "6", "7", "8", "9">>

\* n in decimal, without padding
RECURSIVE Decimal(_)
Decimal(n) == IF n < 10 THEN <<DigitChars[n + 1]>> ELSE Decimal(n \div 10) \o <<DigitChars[(n % 10) + 1]>>

\* mutant: the field is written without its leading zeros
PadNone(n, w) == Decimal(n)

\* n in decimal, zero-padded to w digits
RECURSIVE Pad(_, _)
Pad(n, w) == IF w = 0 THEN << >> ELSE Pad(n \div 10, w - 1) \o <<DigitChars[(n % 10) + 1]>>

\* one directive (or literal character) of a strftime format
Directive(tok, t) ==
    CASE tok = "%Y" -> Pad(t.year, 4)
      [] tok = "%m" -> Pad(t.month, 2)
      [] tok = "%d" -> Pad(t.day, 2)
      [] tok = "%H" -> Pad(t.hour, 2)
      [] tok = "%M" -> Pad(t.minute, 2)
      [] tok = "%S" -> Pad(t.second, 2)
      [] OTHER      -> <<tok>>

\* t.strftime(fmt), fmt given as its sequence of directives and literal characters
RECURSIVE strftime(_, _)
strftime(fmt, t) == IF fmt = << >> THEN << >> ELSE Directive(Head(fmt), t) \o strftime(Tail(fmt), t)

\* '%Y%m%d_%H%M%S'
FileStampFormat == <<"%Y", "%m", "%d", "_", "%H", "%M", "%S">>

\* '%Y-%m-%d %H:%M:%S'
PrintStampFormat == <<"%Y", "-", "%m", "-", "%d", " ", "%H", ":", "%M", ":", "%S">>

\* datetime.isoformat() of a reading with no microseconds
IsoFormat == <<"%Y", "-", "%m", "-", "%d", "T", "%H", ":", "%M", ":", "%S">>

HtmlSuffix == <<".", "h", "t", "m", "l">>

\* f"phone_map_{now:%Y%m%d_%H%M%S}.html"
phoneinfo_map_file(t) ==
    <<"p", "h", "o", "n", "e", "_", "m", "a", "p", "_">> \o strftime(FileStampFormat, t) \o HtmlSuffix

\* f"location_{now:%Y%m%d_%H%M%S}.html"
main_filename(t) ==
    <<"l", "o", "c", "a", "t", "i", "o", "n", "_">> \o strftime(FileStampFormat, t) \o HtmlSuffix

----------------------------------------------------------------------------
\* Answers of the libraries

\* phonenumbers.parse raises NumberParseException, or returns a number that
\* is_valid_number accepts or rejects
ParseAnswers ==
    {[raises |-> TRUE, valid |-> FALSE], [raises |-> FALSE, valid |-> FALSE],
     [raises |-> FALSE, valid |-> TRUE]}

\* the answers parse can give for a string: one that holds no digit is never a
\* number (the parser contract: a string that is not numeric fails to parse)
ParseAnswersFor(s) ==
    IF \E i \in DOMAIN s : s[i] \in {"0", "1", "2", "3", "4", "5", "6", "7", "8", "9"}
    THEN ParseAnswers
    ELSE {p \in ParseAnswers : p.raises}

\* geocoder.description_for_number: no data (None or "") or a description
LocationAnswers == {None, Some(""), Some("Nairobi")}

\* carrier.name_for_number: no data (None or "") or a name
CarrierAnswers == {None, Some(""), Some("Safaricom")}

\* phonenumbers.number_type: a mapped type, and one the map does not hold
NumberTypeAnswers == {1, 27}

Geometries == {[lat |-> -12921, lng |-> 368219], [lat |-> 0, lng |-> 0]}

ResultLists ==
    UNION {[1..n -> {[geometry |-> g] : g \in Geometries}] : n \in 0..MaxResults}

\* geocode(): raises, returns None, or returns a list of results
GeocodeAnswers ==
    {[kind |-> "raise", list |-> << >>], [kind |-> "none", list |-> << >>]}
        \cup {[kind |-> "list", list |-> l] : l \in ResultLists}

----------------------------------------------------------------------------
\* Pieces of the pipeline functions

\* mutant: the validity check is left out
ParseVerdictUnchecked(p) == IF p.raises THEN "parse_error" ELSE "ok"

\* parse, then `if not is_valid_number(parsed)`
ParseVerdict(p) ==
    IF p.raises THEN "parse_error" ELSE IF ~p.valid THEN "invalid" ELSE "ok"

\* mutant: the answer is used as it is
OrDefaultMissing(answer, placeholder) == IF answer = None THEN "" ELSE answer[1]

\* `answer or placeholder`; `if not answer: answer = placeholder`
OrDefault(answer, placeholder) == Or(answer, Some(placeholder))[1]

type_map ==
    (0 :> "Fixed Line") @@ (1 :> "Mobile") @@ (2 :> "Fixed Line or Mobile")
        @@ (3 :> "Toll Free") @@ (4 :> "Premium Rate") @@ (5 :> "Shared Cost")
        @@ (6 :> "VoIP") @@ (7 :> "Personal Number") @@ (8 :> "Pager") @@ (9 :> "UAN")
        @@ (10 :> "Voicemail") @@ (99 :> "Unknown")

\* type_map.get(number_type, "Unknown")
type_map_get(n) == IF n \in DOMAIN type_map THEN type_map[n] ELSE "Unknown"

\* `results and len(results) > 0`; `not results` is its negation
HasResults(answer) == answer.kind = "list" /\ Len(answer.list) > 0

\* mutant: the last result is taken
LastGeometry(list) == list[Len(list)].geometry

\* results[0].geometry
FirstGeometry(list) == list[1].geometry

\* `lat is not None and lng is not None`
HasCoordinates(la, ln) == la # None /\ ln # None

\* the dict get_phone_info builds before the map stage
phoneinfo_result(phone_str, loc, car, type, now) ==
    [number |-> phone_str, location |-> loc, carrier |-> car, type |-> type, timestamp |-> now]

\* mutant: the region and the carrier are dropped
main_no_match_bare(loc, car) == [error |-> "Could not geocode location"]

\* the dict get_phone_location returns when `not results`
main_no_match(loc, car) ==
    [error |-> "Could not geocode location", location |-> loc, carrier |-> car]

\* mutant: the file name is left out of the dict
main_result_no_map_file(loc, car, la, ln, filename, stamp) ==
    [location |-> loc, carrier |-> car, latitude |-> la, longitude |-> ln, timestamp |-> stamp]

\* the dict get_phone_location returns after the map stage
main_result(loc, car, la, ln, filename, stamp) ==
    [location |-> loc, carrier |-> car, latitude |-> la, longitude |-> ln,
     map_file |-> filename, timestamp |-> stamp]

API_KEY == "b18b218fd043493ba212ace3f523a9b1"

----------------------------------------------------------------------------
\* The process

Init ==
    /\ variant \in {"phoneinfo", "main"}
    /\ IF variant = "phoneinfo"
       THEN /\ args_number \in {None} \cup {Some(s) : s \in Strings}
            /\ args_api_key \in {None, Some("FLAGKEY")}
            /\ env_api_key \in {None, Some(""), Some("ENVKEY")}
            /\ pc = "main"
       ELSE /\ args_number = None
            /\ args_api_key = None
            /\ env_api_key \in {None, Some("ENVKEY")}
            /\ pc = "menu"
    /\ runs = 0
    /\ choice = ""
    /\ typed = None
    /\ phone_number = None
    /\ api_key = None
    /\ parsed = None
    /\ raw_location = None
    /\ raw_carrier = None
    /\ location = ""
    /\ carrier_name = ""
    /\ phone_type = ""
    /\ geo = None
    /\ query = None
    /\ geocodeCalls = 0
    /\ lat = None
    /\ lng = None
    /\ result = None
    /\ written = {}
    /\ exitCode = None
    /\ interrupted = FALSE
    /\ stdin_eof = FALSE

\* the process ends with an exit code
Exit(code) ==
    /\ pc' = "exited"
    /\ exitCode' = Some(code)
    /\ UNCHANGED <<lat, lng, result>>

\* an exception is raised at a position: the innermost clause that catches it runs
Raised(exc, at) ==
    LET do == Dispatch(Handlers(variant, at), exc)
    IN  CASE do = "exit0" -> Exit(0)
          [] do = "exit1" -> Exit(1)
          [] do = "parse_exit" -> Exit(SysExit(variant, 1))
          [] do = "geocode_failed" ->
                /\ pc' = "render"
                /\ lat' = None
                /\ lng' = None
                /\ UNCHANGED <<exitCode, result>>
          [] do = "return_parse_error" ->
                /\ pc' = "returned"
                /\ result' = Some([error |-> "Error parsing number"])
                /\ UNCHANGED <<exitCode, lat, lng>>
          [] do = "return_error" ->
                /\ pc' = "returned"
                /\ result' = Some([error |-> "An error occurred"])
                /\ UNCHANGED <<exitCode, lat, lng>>
          [] OTHER -> Exit(1)

\* Ctrl-C while the process runs
KeyboardInterrupt ==
    /\ pc # "exited"
    /\ interrupted' = TRUE
    /\ Raised("KeyboardInterrupt", pc)
    /\ UNCHANGED <<envVars, stdin_eof, runs, choice, typed, phone_number, api_key, parsed, raw_location,
                   raw_carrier, location, carrier_name, phone_type, geo, query, geocodeCalls,
                   written>>

----------------------------------------------------------------------------
\* phoneinfo.py

\* main(), up to the call of get_phone_info
phoneinfo_main ==
    /\ variant = "phoneinfo"
    /\ pc = "main"
    /\ typed' = args_number
    /\ LET key == Or(args_api_key, env_api_key)
       IN  IF ~TruthyChars(args_number)
           THEN Exit(SysExit(variant, 1)) /\ UNCHANGED <<api_key, phone_number>>
           ELSE IF ~Truthy(key)
           THEN Exit(SysExit(variant, 1)) /\ UNCHANGED <<api_key, phone_number>>
           ELSE /\ api_key' = key
                /\ phone_number' = Some(phoneinfo_normalize(args_number[1]))
                /\ pc' = "parse"
                /\ UNCHANGED <<exitCode, lat, lng, result>>
    /\ UNCHANGED <<envVars, runs, choice, parsed, raw_location, raw_carrier, location,
                   carrier_name, phone_type, geo, query, geocodeCalls, written, interrupted,
                   stdin_eof>>

\* get_phone_info: parse and validity check
get_phone_info_parse ==
    /\ variant = "phoneinfo"
    /\ pc = "parse"
    /\ \E p \in ParseAnswersFor(phone_number[1]) :
        /\ parsed' = Some(p)
        /\ CASE ParseVerdict(p) = "parse_error" -> Raised("NumberParseException", "parse")
             [] ParseVerdict(p) = "invalid" -> Exit(SysExit(variant, 1))
             [] OTHER -> pc' = "lookup" /\ UNCHANGED <<exitCode, lat, lng, result>>
    /\ UNCHANGED <<envVars, runs, choice, typed, phone_number, api_key, raw_location,
                   raw_carrier, location, carrier_name, phone_type, geo, query, geocodeCalls,
                   written, interrupted,
                   stdin_eof>>

\* get_phone_info: region, carrier and line type
get_phone_info_lookup ==
    /\ variant = "phoneinfo"
    /\ pc = "lookup"
    /\ \E l \in LocationAnswers, c \in CarrierAnswers, t \in NumberTypeAnswers :
        /\ raw_location' = Some(l)
        /\ raw_carrier' = Some(c)
        /\ location' = OrDefault(l, "Unknown location")
        /\ carrier_name' = OrDefault(c, "Unknown carrier")
        /\ phone_type' = type_map_get(t)
    /\ pc' = "geocode"
    /\ UNCHANGED <<envVars, runs, choice, typed, phone_number, api_key, parsed, geo, query,
                   geocodeCalls, lat, lng, result, written, exitCode, interrupted,
                   stdin_eof>>

\* get_phone_info: the geocoding request
get_phone_info_geocode ==
    /\ variant = "phoneinfo"
    /\ pc = "geocode"
    /\ query' = Some(location)
    /\ geocodeCalls' = geocodeCalls + 1
    /\ \E a \in GeocodeAnswers :
        /\ geo' = Some(a)
        /\ IF a.kind = "raise"
           THEN Raised("GeocodeError", "geocode")
           ELSE /\ pc' = "render"
                /\ lat' = IF HasResults(a) THEN Some(FirstGeometry(a.list).lat) ELSE None
                /\ lng' = IF HasResults(a) THEN Some(FirstGeometry(a.list).lng) ELSE None
                /\ UNCHANGED <<exitCode, result>>
    /\ UNCHANGED <<envVars, runs, choice, typed, phone_number, api_key, parsed, raw_location,
                   raw_carrier, location, carrier_name, phone_type, written, interrupted,
                   stdin_eof>>

\* get_phone_info: the summary, the dict and the map stage
get_phone_info_render ==
    /\ variant = "phoneinfo"
    /\ pc = "render"
    /\ \E i \in DOMAIN ClockSamples, j \in DOMAIN ClockSamples :
        /\ i <= j
        /\ LET now == strftime(PrintStampFormat, ClockSamples[i])
               map_file == phoneinfo_map_file(ClockSamples[j])
               base == phoneinfo_result(phone_number[1], location, carrier_name, phone_type, now)
           IN  IF HasCoordinates(lat, lng)
               THEN /\ written' = written \cup {map_file}
                    /\ result' = Some(base @@ [latitude |-> lat[1], longitude |-> lng[1],
                                               map_file |-> map_file])
               ELSE /\ written' = written
                    /\ result' = Some(base)
    /\ pc' = "returned"
    /\ UNCHANGED <<envVars, runs, choice, typed, phone_number, api_key, parsed, raw_location,
                   raw_carrier, location, carrier_name, phone_type, geo, query, geocodeCalls,
                   lat, lng, exitCode, interrupted,
                   stdin_eof>>

\* main(), after get_phone_info returned: the process ends normally
phoneinfo_main_return ==
    /\ variant = "phoneinfo"
    /\ pc = "returned"
    /\ Exit(0)
    /\ UNCHANGED <<envVars, runs, choice, typed, phone_number, api_key, parsed, raw_location,
                   raw_carrier, location, carrier_name, phone_type, geo, query, geocodeCalls,
                   written, interrupted,
                   stdin_eof>>

----------------------------------------------------------------------------
\* main.py

MenuChoices == {"1", "2", "3", "4", "x"}

\* main(): one reading of the menu choice
main_menu ==
    /\ variant = "main"
    /\ pc = "menu"
    /\ \E ch \in MenuChoices :
        /\ ch = "1" => runs < MaxRuns
        /\ choice' = ch
        /\ CASE ch = "1" -> pc' = "input" /\ UNCHANGED <<exitCode, lat, lng, result>>
             [] ch \in {"2", "3"} -> pc' = "pause" /\ UNCHANGED <<exitCode, lat, lng, result>>
             [] ch = "4" -> Exit(SysExit(variant, 0))
             [] OTHER -> pc' = "menu" /\ UNCHANGED <<exitCode, lat, lng, result>>
    /\ UNCHANGED <<envVars, runs, typed, phone_number, api_key, parsed, raw_location,
                   raw_carrier, location, carrier_name, phone_type, geo, query, geocodeCalls,
                   written, interrupted,
                   stdin_eof>>

\* main(), choice 1: the number is read and handed to get_phone_location
main_enter_number ==
    /\ variant = "main"
    /\ pc = "input"
    /\ \E s \in Strings :
        /\ typed' = Some(s)
        /\ IF strip(s) = << >>
           THEN /\ pc' = "pause"
                /\ phone_number' = None
                /\ UNCHANGED <<runs, api_key, parsed, raw_location, raw_carrier,
                               location, carrier_name, geo, query, geocodeCalls, lat, lng,
                               result, written>>
           ELSE /\ pc' = "parse"
                /\ runs' = runs + 1
                /\ phone_number' = Some(main_normalize(s))
                /\ api_key' = Some(API_KEY)
                /\ parsed' = None
                /\ raw_location' = None
                /\ raw_carrier' = None
                /\ location' = ""
                /\ carrier_name' = ""
                /\ geo' = None
                /\ query' = None
                /\ geocodeCalls' = 0
                /\ lat' = None
                /\ lng' = None
                /\ result' = None
                /\ written' = {}
    /\ UNCHANGED <<envVars, choice, phone_type, exitCode, interrupted,
                   stdin_eof>>

\* get_phone_location: parse and validity check
get_phone_location_parse ==
    /\ variant = "main"
    /\ pc = "parse"
    /\ \E p \in ParseAnswersFor(phone_number[1]) :
        /\ parsed' = Some(p)
        /\ CASE ParseVerdict(p) = "parse_error" -> Raised("NumberParseException", "parse")
             [] ParseVerdict(p) = "invalid" ->
                    /\ pc' = "returned"
                    /\ result' = Some([error |-> "Invalid phone number"])
                    /\ UNCHANGED <<exitCode, lat, lng>>
             [] OTHER -> pc' = "lookup" /\ UNCHANGED <<exitCode, lat, lng, result>>
    /\ UNCHANGED <<envVars, runs, choice, typed, phone_number, api_key, raw_location,
                   raw_carrier, location, carrier_name, phone_type, geo, query, geocodeCalls,
                   written, interrupted,
                   stdin_eof>>

\* get_phone_location: region and carrier
get_phone_location_lookup ==
    /\ variant = "main"
    /\ pc = "lookup"
    /\ \E l \in LocationAnswers, c \in CarrierAnswers :
        /\ raw_location' = Some(l)
        /\ raw_carrier' = Some(c)
        /\ location' = OrDefault(l, "Unknown Location")
        /\ carrier_name' = OrDefault(c, "Unknown Carrier")
    /\ pc' = "geocode"
    /\ UNCHANGED <<envVars, runs, choice, typed, phone_number, api_key, parsed, phone_type,
                   geo, query, geocodeCalls, lat, lng, result, written, exitCode, interrupted,
                   stdin_eof>>

\* get_phone_location: the geocoding request
get_phone_location_geocode ==
    /\ variant = "main"
    /\ pc = "geocode"
    /\ query' = Some(location)
    /\ geocodeCalls' = geocodeCalls + 1
    /\ \E a \in GeocodeAnswers :
        /\ geo' = Some(a)
        /\ IF a.kind = "raise"
           THEN Raised("GeocodeError", "geocode")
           ELSE IF ~HasResults(a)
           THEN /\ pc' = "returned"
                /\ result' = Some(main_no_match(location, carrier_name))
                /\ UNCHANGED <<exitCode, lat, lng>>
           ELSE /\ pc' = "render"
                /\ lat' = Some(FirstGeometry(a.list).lat)
                /\ lng' = Some(FirstGeometry(a.list).lng)
                /\ UNCHANGED <<exitCode, result>>
    /\ UNCHANGED <<envVars, runs, choice, typed, phone_number, api_key, parsed, raw_location,
                   raw_carrier, location, carrier_name, phone_type, written, interrupted,
                   stdin_eof>>

\* get_phone_location: the map stage and the returned dict
get_phone_location_render ==
    /\ variant = "main"
    /\ pc = "render"
    /\ \E i \in DOMAIN ClockSamples, j \in DOMAIN ClockSamples :
        /\ i <= j
        /\ LET filename == main_filename(ClockSamples[i])
               stamp == strftime(IsoFormat, ClockSamples[j])
           IN  /\ written' = written \cup {filename}
               /\ result' = Some(main_result(location, carrier_name, lat[1], lng[1],
                                             filename, stamp))
    /\ pc' = "returned"
    /\ UNCHANGED <<envVars, runs, choice, typed, phone_number, api_key, parsed, raw_location,
                   raw_carrier, location, carrier_name, phone_type, geo, query, geocodeCalls,
                   lat, lng, exitCode, interrupted,
                   stdin_eof>>

\* main(), after get_phone_location returned: the outcome is reported
main_report ==
    /\ variant = "main"
    /\ pc = "returned"
    /\ IF "error" \notin Keys(result) /\ "map_file" \notin Keys(result)
       THEN Raised("KeyError", "report")
       ELSE pc' = "pause" /\ UNCHANGED <<exitCode, lat, lng, result>>
    /\ UNCHANGED <<envVars, runs, choice, typed, phone_number, api_key, parsed, raw_location,
                   raw_carrier, location, carrier_name, phone_type, geo, query, geocodeCalls,
                   written, interrupted,
                   stdin_eof>>

\* main(): "Press Enter to continue", then the loop starts over
main_pause ==
    /\ variant = "main"
    /\ pc = "pause"
    /\ pc' = "menu"
    /\ UNCHANGED <<envVars, runVars, runs, choice, exitCode, interrupted,
                   stdin_eof>>

\* main(): input() meets the end of the standard input and raises EOFError
EOFError ==
    /\ variant = "main"
    /\ pc \in {"menu", "input", "pause"}
    /\ stdin_eof' = TRUE
    /\ Raised("EOFError", pc)
    /\ UNCHANGED <<envVars, runs, choice, typed, phone_number, api_key, parsed, raw_location,
                   raw_carrier, location, carrier_name, phone_type, geo, query, geocodeCalls,
                   written, interrupted>>

----------------------------------------------------------------------------

Next ==
    \/ phoneinfo_main
    \/ get_phone_info_parse
    \/ get_phone_info_lookup
    \/ get_phone_info_geocode
    \/ get_phone_info_render
    \/ phoneinfo_main_return
    \/ main_menu
    \/ main_enter_number
    \/ get_phone_location_parse
    \/ get_phone_location_lookup
    \/ get_phone_location_geocode
    \/ get_phone_location_render
    \/ main_report
    \/ main_pause
    \/ EOFError
    \/ KeyboardInterrupt

Spec == Init /\ [][Next]_vars

----------------------------------------------------------------------------
\* Properties

CoordinateKeys == {"latitude", "longitude", "map_file"}

\* the geocoder answered, with zero results (None or an empty list)
NoMatch == geo # None /\ geo[1].kind # "raise" /\ ~HasResults(geo[1])

\* the geocoding call raised
GeocodeRaised == geo # None /\ geo[1].kind = "raise"

\* the geocoder answered with at least one result
Matched == geo # None /\ HasResults(geo[1])

\* C1: in both variants, when the geocoder returns zero results, no map file is
\* written, and the returned aggregate holds no latitude, longitude or map_file
\* and holds a non-empty location and a non-empty carrier.
C1_NoMatchAggregate ==
    /\ NoMatch => written = {}
    /\ (NoMatch /\ result # None) =>
        /\ Keys(result) \cap CoordinateKeys = {}
        /\ {"location", "carrier"} \subseteq Keys(result)
        /\ result[1].location # ""
        /\ result[1].carrier # ""

\* C1 witness: phoneinfo.py returned after the geocoder answered with an empty
\* list for a number whose region was unknown.
C1_Witness ==
    /\ variant = "phoneinfo"
    /\ pc = "returned"
    /\ geo = Some([kind |-> "list", list |-> << >>])
    /\ raw_location = Some(Some(""))

\* the aggregate the variant at hand returns for zero results, given the region,
\* the carrier and the other fields of this run
NoMatchAggregate ==
    IF variant = "main"
    THEN main_no_match(location, carrier_name)
    ELSE phoneinfo_result(phone_number[1], location, carrier_name, phone_type,
                          result[1].timestamp)

\* C2 (as claimed): in both variants a geocoding call that raises is not fatal and
\* gives the outcome of a call that returns zero results: the same returned
\* fields, no file written, the run continuing in the same way.
C2_RaiseSameAsNoMatch ==
    GeocodeRaised =>
        /\ written = {}
        /\ ~stdin_eof => exitCode # Some(1)
        /\ result # None =>
            /\ DOMAIN result[1] = DOMAIN NoMatchAggregate
            /\ result[1] = NoMatchAggregate

\* a credential handed to the pipeline came from the flag or the environment
SuppliedFromOutside ==
    /\ Truthy(args_api_key) \/ Truthy(env_api_key)
    /\ api_key \in {args_api_key, env_api_key}

\* C3 (as claimed): no run reaches the parse step or the geocode step without a
\* credential supplied from outside the program (the flag or the environment
\* variable): without one the process has stopped before.
C3_CredentialBeforeParse ==
    (pc \in {"parse", "lookup", "geocode", "render"} \/ parsed # None \/ geocodeCalls > 0)
        => SuppliedFromOutside

\* the number of this run could not be parsed, or parsed and is not valid
NumberRejected == parsed # None /\ ParseVerdict(parsed[1]) # "ok"

\* the pipeline function returned an aggregate that reports no error
RunSucceeded == result # None /\ "error" \notin Keys(result)

C5_OneRequestAfterValidation ==
    /\ geocodeCalls <= 1
    /\ geocodeCalls > 0 => (parsed # None /\ ~parsed[1].raises /\ parsed[1].valid)
    /\ (geo # None \/ query # None) => geocodeCalls = 1

\* C5 witness: a request raised and the run went on past it: it was not retried.
C5_Witness ==
    /\ GeocodeRaised
    /\ geocodeCalls = 1
    /\ pc \in {"render", "returned"}

\* the number as the normalization receives it: main.py trims it first
Trimmed == IF variant = "main" THEN strip(typed[1]) ELSE typed[1]

\* the normalization of the variant at hand
Normalize(str) == IF variant = "main" THEN main_normalize(str) ELSE phoneinfo_normalize(str)

\* C6 (as claimed): the string handed to the parser begins with '+'; an input
\* without a leading '+' gets exactly one '+' prepended, an input that begins
\* with '+' is passed unchanged; normalizing twice is normalizing once.
C6_PlusPrefix ==
    phone_number # None =>
        /\ startswith(phone_number[1], "+")
        /\ startswith(typed[1], "+") => phone_number[1] = typed[1]
        /\ ~startswith(typed[1], "+") => phone_number[1] = <<"+">> \o typed[1]
        /\ Normalize(phone_number[1]) = phone_number[1]

\* C6 (amended): the string handed to the parser begins with '+'; main.py first
\* trims the whitespace around the input; the (trimmed) input gets exactly one
\* '+' prepended when it does not begin with '+' and is passed unchanged when it
\* does; normalizing twice is normalizing once.
C6_PlusPrefixAfterTrim ==
    phone_number # None =>
        /\ startswith(phone_number[1], "+")
        /\ startswith(Trimmed, "+") => phone_number[1] = Trimmed
        /\ ~startswith(Trimmed, "+") => phone_number[1] = <<"+">> \o Trimmed
        /\ Normalize(phone_number[1]) = phone_number[1]

\* C6 witness: main.py was given "+1" followed by a blank and hands over "+1".
C6_Witness ==
    /\ variant = "main"
    /\ typed = Some(<<"+", " ">>)
    /\ phone_number = Some(<<"+">>)
    /\ pc = "parse"

Placeholders == {"Unknown location", "Unknown Location", "Unknown carrier", "Unknown Carrier"}

\* C7: when the region or the carrier lookup returns no data, the value is
\* replaced by a non-empty "Unknown ..." placeholder and the run goes on to the
\* geocoding request, whose query is the region (the placeholder when the region
\* is missing); an aggregate that holds location and carrier holds non-empty
\* values for both.
C7_UnknownPlaceholders ==
    /\ raw_location # None =>
        /\ location # ""
        /\ location = (IF Truthy(raw_location[1]) THEN raw_location[1][1]
                       ELSE IF variant = "main" THEN "Unknown Location" ELSE "Unknown location")
    /\ raw_carrier # None =>
        /\ carrier_name # ""
        /\ carrier_name = (IF Truthy(raw_carrier[1]) THEN raw_carrier[1][1]
                           ELSE IF variant = "main" THEN "Unknown Carrier" ELSE "Unknown carrier")
    /\ (raw_location # None /\ pc # "geocode" /\ ~interrupted) => geocodeCalls = 1
    /\ query # None => query[1] = location
    /\ {"location", "carrier"} \subseteq Keys(result) =>
        /\ result[1].location = location
        /\ result[1].carrier = carrier_name
        /\ result[1].location # ""
        /\ result[1].carrier # ""

\* C7 witness: neither lookup returned data, the request was made with the
\* placeholder and the aggregate returned holds both placeholders.
C7_Witness ==
    /\ raw_location = Some(None)
    /\ raw_carrier = Some(Some(""))
    /\ query # None
    /\ query[1] \in Placeholders
    /\ {"location", "carrier"} \subseteq Keys(result)
    /\ result[1].carrier \in Placeholders

Digits == {"0", "1", "2", "3", "4", "5", "6", "7", "8", "9"}

\* name is <prefix>_<8 digits>_<6 digits>.html
IsStampedName(name, prefix) ==
    LET n == Len(prefix)
    IN  /\ Len(name) = n + 21
        /\ SubSeq(name, 1, n) = prefix
        /\ name[n + 1] = "_"
        /\ \A i \in (n + 2)..(n + 9) : name[i] \in Digits
        /\ name[n + 10] = "_"
        /\ \A i \in (n + 11)..(n + 16) : name[i] \in Digits
        /\ SubSeq(name, n + 17, n + 21) = <<".", "h", "t", "m", "l">>

MapPrefix ==
    IF variant = "main" THEN <<"l", "o", "c", "a", "t", "i", "o", "n">>
    ELSE <<"p", "h", "o", "n", "e", "_", "m", "a", "p">>

C9_FirstResultCoordinates ==
    /\ (result # None /\ Matched) =>
        /\ {"latitude", "longitude"} \subseteq Keys(result)
        /\ result[1].latitude = geo[1].list[1].geometry.lat
        /\ result[1].longitude = geo[1].list[1].geometry.lng
    /\ (Matched /\ pc = "render") =>
        /\ lat = Some(geo[1].list[1].geometry.lat)
        /\ lng = Some(geo[1].list[1].geometry.lng)

\* C9 witness: two different results were returned and the aggregate holds the
\* coordinates of the first.
C9_Witness ==
    /\ result # None
    /\ Matched
    /\ Len(geo[1].list) = 2
    /\ geo[1].list[1].geometry = [lat |-> -12921, lng |-> 368219]
    /\ geo[1].list[2].geometry = [lat |-> 0, lng |-> 0]
    /\ result[1].latitude = -12921
    /\ result[1].longitude = 368219

\* C10: a user interrupt at any position of a running process (waiting for
\* input, parsing, looking up, inside the geocoding call and its try block,
\* rendering the map) ends the process with exit code 0: no except clause of the
\* pipeline catches it and it never becomes exit code 1.
C10_InterruptExitsZero == interrupted => (pc = "exited" /\ exitCode = Some(0))

\* C10 witness: main.py was interrupted inside the geocoding call (the lookups
\* were done, the geocoder had not answered) and ended with exit code 0.
C10_Witness ==
    /\ variant = "main"
    /\ interrupted
    /\ raw_location # None
    /\ geo = None
    /\ result = None
    /\ exitCode = Some(0)

SuccessKeys == {"location", "carrier", "latitude", "longitude", "map_file", "timestamp"}

\* a value get_phone_location returned holds "error", or holds every key of a
\* success, and not both; the read of result['map_file'] finds its key
ErrorOrComplete ==
    variant = "main" =>
        /\ result # None => (("error" \in Keys(result)) # (SuccessKeys \subseteq Keys(result)))
        /\ pc = "returned" => ("error" \in Keys(result) \/ "map_file" \in Keys(result))

\* after get_phone_location returned, main.py reports and waits for Enter
ReportThenPause == (variant = "main" /\ pc = "returned") => (pc' = "pause" \/ interrupted')

\* C11 (as claimed): in main.py a value returned by get_phone_location holds
\* "error" or all of location, carrier, latitude, longitude, map_file and
\* timestamp, never both and never neither, so the read of result['map_file']
\* finds its key; after either outcome control goes back to the menu; the loop
\* is left only through menu choice 4 or a user interrupt.
C11_MenuLoop ==
    [][ /\ ErrorOrComplete'
        /\ ReportThenPause
        /\ (variant = "main" /\ pc = "pause") => (pc' = "menu" \/ interrupted')
        /\ (variant = "main" /\ pc' = "exited") => (choice' = "4" \/ interrupted') ]_vars

\* C11 (amended): as claimed, except that the loop is also left when input()
\* meets the end of the standard input at the menu, at the number prompt or at
\* "Press Enter": the EOFError is caught nowhere and the process ends with
\* exit code 1.
C11_MenuLoopOrEndOfInput ==
    [][ /\ ErrorOrComplete'
        /\ ReportThenPause
        /\ (variant = "main" /\ pc = "pause") => (pc' = "menu" \/ interrupted' \/ stdin_eof')
        /\ (variant = "main" /\ pc' = "exited") =>
                \/ choice' = "4" /\ exitCode' = Some(0)
                \/ interrupted' /\ exitCode' = Some(0)
                \/ stdin_eof' /\ exitCode' = Some(1) /\ pc \in {"menu", "input", "pause"} ]_vars

\* C11 witness: main.py is back at the menu after a run that returned a complete
\* aggregate, whose map_file was read.
C11_Witness ==
    /\ variant = "main"
    /\ pc = "menu"
    /\ SuccessKeys \subseteq Keys(result)
    /\ "error" \notin Keys(result)
    /\ exitCode = None

====
